---------------------------- MODULE Spec2Model ----------------------------
(***************************************************************************)
(* Backyard Ultra Training Plan Generator.                                 *)
(*                                                                         *)
(* The repository holds two versions of the same page script:              *)
(*   src/app.js           the single-tier version (average hours only,     *)
(*                        flat plan), variant "single";                    *)
(*   src/unnamed/part_000 the two-tier version (average and peak hours,    *)
(*                        ramp and taper), variant "twotier".              *)
(* Definitions of the single-tier version that share a name with the       *)
(* two-tier one carry the prefix App_.                                     *)
(*                                                                         *)
(* JavaScript numbers are modelled as exact fractions num/den with         *)
(* den >= 0, in lowest terms: 0/0 is NaN, 1/0 is Infinity, -1/0 is         *)
(* -Infinity.  The binary rounding error of IEEE doubles and the sign of   *)
(* zero are not modelled.  The form fields deliver NaN or a finite decimal *)
(* (parseFloat / parseInt of a numeric field), and "" or a valid date.     *)
(***************************************************************************)
EXTENDS Integers, Sequences, FiniteSets

VARIABLES
    variant,      \* which of the two scripts the page runs
    now,          \* the wall clock read by `new Date()`
    messagesEl,   \* #messages: its className and its list items
    outputEl,     \* #planOutput: the rendered plan, or EmptyOutput
    data,         \* the record of the last collectFormData()
    errors,       \* what the validator last returned
    plan,         \* what the generator last returned, or NotCalled
    pc,           \* which operation last ran
    interpArgs,   \* the arguments of the last direct interpolate call
    interpResult  \* and its result

vars == <<variant, now, messagesEl, outputEl, data, errors, plan, pc,
          interpArgs, interpResult>>

---------------------------------------------------------------------------
(* JavaScript numbers *)

Abs(n) == IF n < 0 THEN -n ELSE n

Sign(n) == IF n < 0 THEN -1 ELSE IF n > 0 THEN 1 ELSE 0

RECURSIVE GCD(_, _)
GCD(a, b) == IF b = 0 THEN a ELSE GCD(b, a % b)

\* num/den in lowest terms, den >= 0
Frac(n, d) ==
    IF d = 0 THEN [num |-> Sign(n), den |-> 0]
    ELSE LET g == GCD(Abs(n), Abs(d))
         IN  [num |-> (Sign(d) * n) \div g, den |-> Abs(d) \div g]

Num(n) == [num |-> n, den |-> 1]

\* a decimal literal with two fraction digits, given in hundredths
Dec(h) == Frac(h, 100)

NaN == [num |-> 0, den |-> 0]

isNaN(a) == a.num = 0 /\ a.den = 0

IsFinite(a) == a.den > 0

Add(a, b) ==
    IF a.den = 0 /\ b.den = 0
    THEN IF a.num = b.num THEN a ELSE NaN
    ELSE Frac(a.num * b.den + b.num * a.den, a.den * b.den)

Neg(a) == [num |-> -a.num, den |-> a.den]

Sub(a, b) == Add(a, Neg(b))

Mul(a, b) == Frac(a.num * b.num, a.den * b.den)

Recip(a) == Frac(a.den, a.num)

Div(a, b) == Mul(a, Recip(b))

\* a < b; false when either is NaN
Lt(a, b) ==
    IF isNaN(a) \/ isNaN(b) THEN FALSE
    ELSE IF a.den = 0 /\ b.den = 0 THEN a.num < b.num
    ELSE IF a.den = 0 THEN a.num < 0
    ELSE IF b.den = 0 THEN b.num > 0
    ELSE a.num * b.den < b.num * a.den

\* a <= b; false when either is NaN
Le(a, b) == ~isNaN(a) /\ ~isNaN(b) /\ ~Lt(b, a)

Math_floor(a) == IF a.den = 0 THEN a ELSE Num(a.num \div a.den)

\* Math.round: the nearest integer, a tie goes up
Math_round(a) ==
    IF a.den = 0 THEN a ELSE Num((2 * a.num + a.den) \div (2 * a.den))

Math_max(a, b) ==
    IF isNaN(a) \/ isNaN(b) THEN NaN ELSE IF Lt(a, b) THEN b ELSE a

\* Math.pow(b, k) for an integer k >= 0
RECURSIVE Math_pow(_, _)
Math_pow(b, k) == IF k = 0 THEN Num(1) ELSE Mul(b, Math_pow(b, k - 1))

---------------------------------------------------------------------------
(* JavaScript Date, in local time.  A date is a day number (day 0 is       *)
(* 1 January 2024) and a time of day in slots; Invalid Date and null are   *)
(* values of their own.                                                    *)

\* the slots a day is cut into (time-of-day resolution of the model)
TodSlots == 2

NullDate == [kind |-> "null", day |-> 0, tod |-> 0]

InvalidDate == [kind |-> "invalid", day |-> 0, tod |-> 0]

MkDate(d, t) == [kind |-> "date", day |-> d, tod |-> t]

IsLeap(y) == (y % 4 = 0 /\ y % 100 # 0) \/ y % 400 = 0

DaysInYear(y) == IF IsLeap(y) THEN 366 ELSE 365

\* m is 0-based, as in JavaScript
DaysInMonth(y, m) ==
    IF m = 1 THEN (IF IsLeap(y) THEN 29 ELSE 28)
    ELSE IF m \in {3, 5, 8, 10} THEN 30 ELSE 31

RECURSIVE YearFrom(_, _)
\* the year holding day n, n counted from 1 January of year y
YearFrom(n, y) ==
    IF n < 0 THEN YearFrom(n + DaysInYear(y - 1), y - 1)
    ELSE IF n >= DaysInYear(y) THEN YearFrom(n - DaysInYear(y), y + 1)
    ELSE y

RECURSIVE DayOfYearFrom(_, _)
DayOfYearFrom(n, y) ==
    IF n < 0 THEN DayOfYearFrom(n + DaysInYear(y - 1), y - 1)
    ELSE IF n >= DaysInYear(y) THEN DayOfYearFrom(n - DaysInYear(y), y + 1)
    ELSE n

RECURSIVE MonthFrom(_, _, _)
\* the month holding day-of-year n of year y, searched from month m
MonthFrom(n, y, m) ==
    IF n >= DaysInMonth(y, m) THEN MonthFrom(n - DaysInMonth(y, m), y, m + 1)
    ELSE m

RECURSIVE DayOfMonthFrom(_, _, _)
DayOfMonthFrom(n, y, m) ==
    IF n >= DaysInMonth(y, m)
    THEN DayOfMonthFrom(n - DaysInMonth(y, m), y, m + 1)
    ELSE n + 1

YearOfDay(n) == YearFrom(n, 2024)

MonthOfDay(n) == MonthFrom(DayOfYearFrom(n, 2024), YearOfDay(n), 0)

DateOfDay(n) == DayOfMonthFrom(DayOfYearFrom(n, 2024), YearOfDay(n), 0)

RECURSIVE YearStart(_)
\* the day number of 1 January of year y
YearStart(y) ==
    IF y = 2024 THEN 0
    ELSE IF y > 2024 THEN YearStart(y - 1) + DaysInYear(y - 1)
    ELSE YearStart(y + 1) - DaysInYear(y)

RECURSIVE MonthStart(_, _)
\* the day-of-year of the first of month m (0-based) of year y
MonthStart(y, m) ==
    IF m = 0 THEN 0 ELSE MonthStart(y, m - 1) + DaysInMonth(y, m - 1)

\* MakeDay: the day number of day-of-month d of month m of year y; d may lie
\* outside the month and then counts on into the neighbouring months
MakeDay(y, m, d) == YearStart(y) + MonthStart(y, m) + d - 1

getFullYear(d) == IF d.kind = "date" THEN Num(YearOfDay(d.day)) ELSE NaN

getMonth(d) == IF d.kind = "date" THEN Num(MonthOfDay(d.day)) ELSE NaN

getDate(d) == IF d.kind = "date" THEN Num(DateOfDay(d.day)) ELSE NaN

\* the time value a date compares by
getTime(d) == IF d.kind = "date" THEN Num(d.day * TodSlots + d.tod) ELSE NaN

\* new Date(y, m, d): local midnight of that day
NewDateYMD(y, m, d) ==
    IF IsFinite(y) /\ IsFinite(m) /\ IsFinite(d)
    THEN MkDate(MakeDay(y.num, m.num, d.num), 0)
    ELSE InvalidDate

\* d.setDate(n): the same month and time of day, day-of-month n
setDate(d, n) ==
    IF d.kind = "date" /\ IsFinite(n)
    THEN MkDate(MakeDay(YearOfDay(d.day), MonthOfDay(d.day), n.num), d.tod)
    ELSE InvalidDate

---------------------------------------------------------------------------
(* The form and collectFormData *)

\* the day checkboxes, in document order
DayBoxes == <<"Mon", "Tue", "Wed", "Thu", "Fri", "Sat", "Sun">>

DaySet == {DayBoxes[i] : i \in 1..Len(DayBoxes)}

IsChecked(form, label) == label \in form.checked

\* the two-tier script's collectFormData: targetDate is null for an empty
\* field, selectedDays are the checked boxes in document order
collectFormData(form) ==
    [targetDate      |-> IF form.targetDate.empty THEN NullDate
                         ELSE form.targetDate.date,
     planLengthWeeks |-> form.planLength,
     avgHours        |-> form.avgHours,
     peakHours       |-> form.peakHours,
     selectedDays    |-> SelectSeq(DayBoxes, LAMBDA l : IsChecked(form, l))]

\* the single-tier script's collectFormData: no peakHours
App_collectFormData(form) ==
    [targetDate      |-> IF form.targetDate.empty THEN NullDate
                         ELSE form.targetDate.date,
     planLengthWeeks |-> form.planLength,
     avgHours        |-> form.avgHours,
     selectedDays    |-> SelectSeq(DayBoxes, LAMBDA l : IsChecked(form, l))]

---------------------------------------------------------------------------
(* The validators *)

MsgDate == "Please select a target backyard ultra date."

MsgFuture == "Target date must be in the future."

MsgPlanLength == "Please select a training plan length (8, 12, or 16 weeks)."

MsgAvg == "Average weekly training hours must be a positive number."

MsgAvgMin == "Average weekly training is lower than the minimum of 6 hrs."

MsgPeak == "Peak weekly training hours must be a positive number."

MsgPeakAvg == "Peak weekly hours should be greater than or equal to average weekly hours."

MsgDays == "Select at least one training day."

MsgDaysMin == "Number of selected days is lower than the minimum of 3."

MsgLongRun == "Please include one between Tuesday, Saturday or Sunday as a training day to accommodate long runs."

MsgLowIntensity == "Average hours per selected training day is very low (<0.25h). Consider adjusting days or hours."

MsgPerDayLow == "The desired average running time per running day should be at least 1.5. Consider adjusting days or hours."

MsgPerDayHigh == "The desired average running time per running day should be at less than 3.5. Consider adjusting days or hours."

\* Array.prototype.includes
includes(arr, x) == \E i \in 1..Len(arr) : arr[i] = x

PlanLengths == <<Num(8), Num(12), Num(16)>>

\* the minimum of average weekly hours (single-tier)
MinAvgHours == 6

\* the minimum number of training days (single-tier)
MinDays == 3

\* errors.push(msg) when cond holds
PushIf(cond, msg) == IF cond THEN <<msg>> ELSE <<>>

\* DateRule comparing the two instants, time of day included
DateRule_NoMidnight(d, clock) ==
    IF d.targetDate.kind = "null" THEN <<MsgDate>>
    ELSE PushIf(Le(getTime(d.targetDate), getTime(clock)), MsgFuture)

\* the target date rule of the two-tier validator; clock is its `new Date()`
DateRule(d, clock) ==
    IF d.targetDate.kind = "null" THEN <<MsgDate>>
    ELSE LET todayMidnight ==
                 NewDateYMD(getFullYear(clock), getMonth(clock), getDate(clock))
             targetMidnight ==
                 NewDateYMD(getFullYear(d.targetDate), getMonth(d.targetDate),
                            getDate(d.targetDate))
         IN  PushIf(Le(getTime(targetMidnight), getTime(todayMidnight)),
                    MsgFuture)

\* PlanLengthRule with 4 weeks accepted as well
PlanLengthRule_Allow4(d) ==
    PushIf(~includes(<<Num(4)>> \o PlanLengths, d.planLengthWeeks),
           MsgPlanLength)

PlanLengthRule(d) ==
    PushIf(~includes(PlanLengths, d.planLengthWeeks), MsgPlanLength)

AvgRule(d) == PushIf(isNaN(d.avgHours) \/ Le(d.avgHours, Num(0)), MsgAvg)

PeakRule(d) == PushIf(isNaN(d.peakHours) \/ Le(d.peakHours, Num(0)), MsgPeak)

PeakAvgRule(d) ==
    PushIf(~isNaN(d.avgHours) /\ ~isNaN(d.peakHours)
              /\ Lt(d.peakHours, d.avgHours), MsgPeakAvg)

DaysRule(d) == PushIf(Len(d.selectedDays) = 0, MsgDays)

IntensityRule(d) ==
    IF Len(d.selectedDays) # 0 /\ ~isNaN(d.avgHours)
    THEN LET perDayAvg == Div(d.avgHours, Num(Len(d.selectedDays)))
         IN  PushIf(Lt(perDayAvg, Frac(1, 4)), MsgLowIntensity)
    ELSE <<>>

\* validate with the two peak rules in the other order
validate_PeakRulesSwapped(d, clock) ==
    DateRule(d, clock) \o PlanLengthRule(d) \o AvgRule(d) \o PeakAvgRule(d)
    \o PeakRule(d) \o DaysRule(d) \o IntensityRule(d)

\* validate(data) of the two-tier script
validate(d, clock) ==
    DateRule(d, clock) \o PlanLengthRule(d) \o AvgRule(d) \o PeakRule(d)
    \o PeakAvgRule(d) \o DaysRule(d) \o IntensityRule(d)

\* the rules of the single-tier validator
App_DateRule(d) == PushIf(d.targetDate.kind = "null", MsgDate)

App_PlanLengthRule(d) ==
    PushIf(~includes(PlanLengths, d.planLengthWeeks), MsgPlanLength)

App_AvgRule(d) ==
    IF isNaN(d.avgHours) \/ Le(d.avgHours, Num(0)) THEN <<MsgAvg>>
    ELSE PushIf(Lt(d.avgHours, Num(MinAvgHours)), MsgAvgMin)

\* the day selection rules as three independent ifs
App_DayRules_Independent(d) ==
    PushIf(Len(d.selectedDays) = 0, MsgDays)
    \o PushIf(Len(d.selectedDays) < MinDays, MsgDaysMin)
    \o PushIf(Len(d.selectedDays) # 0
                 /\ ~includes(d.selectedDays, "Thu")
                 /\ ~includes(d.selectedDays, "Sat")
                 /\ ~includes(d.selectedDays, "Sun"), MsgLongRun)

\* the day selection rules: an else-if chain
App_DayRules(d) ==
    IF Len(d.selectedDays) = 0 THEN <<MsgDays>>
    ELSE IF Len(d.selectedDays) < MinDays THEN <<MsgDaysMin>>
    ELSE PushIf(~includes(d.selectedDays, "Thu")
                   /\ ~includes(d.selectedDays, "Sat")
                   /\ ~includes(d.selectedDays, "Sun"), MsgLongRun)

App_IntensityRule(d) ==
    IF Len(d.selectedDays) # 0 /\ ~isNaN(d.avgHours)
    THEN LET perDayAvg == Div(d.avgHours, Num(Len(d.selectedDays)))
         IN  IF Lt(perDayAvg, Frac(3, 2)) THEN <<MsgPerDayLow>>
             ELSE PushIf(Lt(Frac(7, 2), perDayAvg), MsgPerDayHigh)
    ELSE <<>>

\* validateDataInput(data) of the single-tier script
validateDataInput(d) ==
    App_DateRule(d) \o App_PlanLengthRule(d) \o App_AvgRule(d)
    \o App_DayRules(d) \o App_IntensityRule(d)

---------------------------------------------------------------------------
(* The generators *)

\* what a call of the generator ends in: a schedule, or a thrown TypeError
Schedule(start, weeks) ==
    [kind |-> "schedule", startDate |-> start, weeks |-> weeks]

TypeErrorThrown ==
    [kind |-> "TypeError", startDate |-> NullDate, weeks |-> <<>>]

NotCalled == [kind |-> "none", startDate |-> NullDate, weeks |-> <<>>]

\* a === b
StrictEq(a, b) == ~isNaN(a) /\ ~isNaN(b) /\ a = b

\* Round to 0.1
round1(v) == Div(Math_round(Mul(v, Num(10))), Num(10))

\* interpolate running from y1 down to y0
interpolate_Reversed(x, x0, x1, y0, y1) ==
    IF StrictEq(x1, x0) THEN y0
    ELSE Add(y1, Mul(Sub(y0, y1), Div(Sub(x, x0), Sub(x1, x0))))

\* Utility linear interpolation
interpolate(x, x0, x1, y0, y1) ==
    IF StrictEq(x1, x0) THEN y0
    ELSE Add(y0, Mul(Sub(y1, y0), Div(Sub(x, x0), Sub(x1, x0))))

\* the count of a loop that runs while w <= n
LoopCount_Inclusive(n) ==
    IF isNaN(n) \/ Lt(n, Num(0)) THEN 0 ELSE n.num \div n.den + 1

\* how often `for (let w = 0; w < n; w++)` runs its body
LoopCount(n) ==
    IF isNaN(n) \/ ~Lt(Num(0), n) THEN 0
    ELSE IF n.num % n.den = 0 THEN n.num \div n.den
    ELSE n.num \div n.den + 1

\* startDate = targetDate - planLengthWeeks * 7 days, by setDate
StartDate(d) ==
    setDate(d.targetDate,
            Sub(getDate(d.targetDate), Mul(d.planLengthWeeks, Num(7))))

\* the week index of the peak
PeakWeekIndex(totalWeeks) == Math_floor(Mul(totalWeeks, Frac(13, 20)))

\* PlannedHours with a taper that is not held at the average
PlannedHours_NoFloor(d, w) ==
    LET peakWeekIndex == Math_floor(Mul(d.planLengthWeeks, Frac(13, 20)))
    IN  IF Lt(Num(w), peakWeekIndex)
        THEN interpolate(Num(w), Num(0), peakWeekIndex, d.avgHours, d.peakHours)
        ELSE IF StrictEq(Num(w), peakWeekIndex) THEN d.peakHours
        ELSE Mul(d.peakHours, Math_pow(Frac(4, 5), w - peakWeekIndex.num))

\* the hours of week index w before rounding (two-tier)
PlannedHours(d, w) ==
    LET peakWeekIndex == PeakWeekIndex(d.planLengthWeeks)
    IN  IF Lt(Num(w), peakWeekIndex)
        THEN interpolate(Num(w), Num(0), peakWeekIndex, d.avgHours, d.peakHours)
        ELSE IF StrictEq(Num(w), peakWeekIndex) THEN d.peakHours
        ELSE LET taperFactor == Math_pow(Frac(4, 5), w - peakWeekIndex.num)
             IN  Math_max(d.avgHours, Mul(d.peakHours, taperFactor))

\* buildPlaceholderPlan(data) of the two-tier script
buildPlaceholderPlan(d) ==
    IF d.targetDate.kind = "null" THEN TypeErrorThrown
    ELSE Schedule(StartDate(d),
                  [i \in 1..LoopCount(d.planLengthWeeks) |->
                      [weekNumber   |-> i,
                       plannedHours |-> round1(PlannedHours(d, i - 1))]])

\* buildPlaceholderPlan(data) of the single-tier script
App_buildPlaceholderPlan(d) ==
    IF d.targetDate.kind = "null" THEN TypeErrorThrown
    ELSE Schedule(StartDate(d),
                  [i \in 1..LoopCount(d.planLengthWeeks) |->
                      [weekNumber   |-> i,
                       plannedHours |-> round1(d.avgHours)]])

---------------------------------------------------------------------------
(* Rendering and the message area *)

\* Format date as YYYY-MM-DD (two-tier): the three numbers in that order
formatDate(d) == <<getFullYear(d), Add(getMonth(d), Num(1)), getDate(d)>>

\* the single-tier script formats DD-MM-YYYY
App_formatDate(d) == <<getDate(d), Add(getMonth(d), Num(1)), getFullYear(d)>>

EmptyOutput == [rendered |-> FALSE]

\* the table rows of the plan
WeekRows(p) ==
    [i \in DOMAIN p.weeks |-> <<p.weeks[i].weekNumber, p.weeks[i].plannedHours>>]

\* renderPlan(plan, data) of the two-tier script: the new outputEl.innerHTML
renderPlan(p, d) ==
    [rendered   |-> TRUE,
     targetStr  |-> formatDate(d.targetDate),
     planLength |-> d.planLengthWeeks,
     startStr   |-> formatDate(p.startDate),
     days       |-> d.selectedDays,
     hours      |-> <<d.avgHours, d.peakHours>>,
     rows       |-> WeekRows(p),
     note       |-> "Placeholder distribution. Will refine algorithm later."]

\* renderPlan(plan, data) of the single-tier script
App_renderPlan(p, d) ==
    [rendered   |-> TRUE,
     targetStr  |-> App_formatDate(d.targetDate),
     planLength |-> d.planLengthWeeks,
     startStr   |-> App_formatDate(p.startDate),
     days       |-> d.selectedDays,
     hours      |-> <<d.avgHours>>,
     rows       |-> WeekRows(p),
     note       |-> "All weeks use the same average weekly hours. Will refine algorithm later."]

\* Escape HTML: of the messages only the low-intensity one holds a character
\* to escape
escapeHtml(str) ==
    IF str = MsgLowIntensity
    THEN "Average hours per selected training day is very low (&lt;0.25h). Consider adjusting days or hours."
    ELSE str

\* the page as the handler sees it: the message area and the plan output
Page(m, o) == [messagesEl |-> m, outputEl |-> o]

\* the message area of the loaded page
LoadedMessages == [classes |-> {"messages"}, items |-> <<>>, focused |-> FALSE]

\* clearMessages that empties the plan output as well
clearMessages_AlsoOutput(page) ==
    [page EXCEPT !.messagesEl.classes = {"messages"},
                 !.messagesEl.items = <<>>,
                 !.outputEl = [rendered |-> FALSE]]

\* Clear message area
clearMessages(page) ==
    [page EXCEPT !.messagesEl.classes = {"messages"},
                 !.messagesEl.items = <<>>]

\* Create and display error messages
showErrors(page, errs) ==
    [page EXCEPT
        !.messagesEl.classes = (@ \ {"success"}) \cup {"error"},
        !.messagesEl.items = [i \in DOMAIN errs |-> escapeHtml(errs[i])]]

\* Focus message region
focusMessages(page) == [page EXCEPT !.messagesEl.focused = TRUE]

---------------------------------------------------------------------------
(* handleGenerate *)

\* one run of a handler: the page it leaves, and what its calls returned
Outcome(page, errs, p) == [page |-> page, errors |-> errs, plan |-> p]

\* handleGenerate without the return after showErrors
handleGenerate_NoReturn(page, d, clock) ==
    LET cleared == clearMessages(page)
        errs    == validate(d, clock)
        shown   == IF Len(errs) # 0 THEN showErrors(cleared, errs) ELSE cleared
        p       == buildPlaceholderPlan(d)
    IN  IF p.kind = "TypeError"
        THEN Outcome(shown, errs, p)
        ELSE Outcome(focusMessages(
                         [shown EXCEPT !.outputEl = renderPlan(p, d)]),
                     errs, p)

\* handleGenerate of the two-tier script on the collected record d
handleGenerate(page, d, clock) ==
    LET cleared == clearMessages(page)
        errs    == validate(d, clock)
    IN  IF Len(errs) # 0
        THEN Outcome(showErrors(cleared, errs), errs, NotCalled)
        ELSE LET p == buildPlaceholderPlan(d)
             IN  IF p.kind = "TypeError"
                 THEN Outcome(cleared, errs, p)
                 ELSE Outcome(focusMessages(
                                  [cleared EXCEPT !.outputEl = renderPlan(p, d)]),
                              errs, p)

\* handleGenerate of the single-tier script
App_handleGenerate(page, d) ==
    LET cleared == clearMessages(page)
        errs    == validateDataInput(d)
    IN  IF Len(errs) # 0
        THEN Outcome(showErrors(cleared, errs), errs, NotCalled)
        ELSE LET p == App_buildPlaceholderPlan(d)
             IN  IF p.kind = "TypeError"
                 THEN Outcome(cleared, errs, p)
                 ELSE Outcome(focusMessages(
                                  [cleared EXCEPT !.outputEl = App_renderPlan(p, d)]),
                              errs, p)

---------------------------------------------------------------------------
(* Inputs *)

\* the day the clock starts on (day 118 is 28 April 2024)
FirstDay == 118

\* how many slots the clock may advance
MaxTicks == 2

\* how many day boxes a form has checked at most
MaxChecked == 3

Variants == {"single", "twotier"}

\* the clock after k ticks
ClockAt(k) == MkDate(FirstDay + (k \div TodSlots), k % TodSlots)

Clocks == {ClockAt(k) : k \in 0..MaxTicks}

SlotOf(clock) == (clock.day - FirstDay) * TodSlots + clock.tod

EmptyField == [empty |-> TRUE, date |-> NullDate]

DateField(d) == [empty |-> FALSE, date |-> d]

\* the target dates a form may hold: the day before the clock starts, that
\* day, the day after, at any time of day
TargetFields ==
    {EmptyField}
    \cup {DateField(MkDate(d, t)) :
            d \in {FirstDay - 1, FirstDay, FirstDay + 1}, t \in 0..(TodSlots - 1)}

PlanLengthInputs == {NaN, Num(4), Num(8), Num(12), Num(16)}

AvgInputs ==
    {NaN, Dec(-100), Dec(0), Dec(20), Dec(500), Dec(624), Dec(1000), Dec(1500)}

PeakInputs == {NaN, Dec(0), Dec(600), Dec(700), Dec(1235)}

CheckedSets == {c \in SUBSET DaySet : Cardinality(c) <= MaxChecked}

\* every form of the bounded input space
Forms ==
    [targetDate : TargetFields, planLength : PlanLengthInputs,
     avgHours : AvgInputs, peakHours : PeakInputs, checked : CheckedSets]

\* the forms the handler is driven with: a part of Forms that holds valid and
\* invalid forms of every kind
HandlerForms ==
    [targetDate : {EmptyField, DateField(MkDate(FirstDay, 1)),
                   DateField(MkDate(FirstDay + 1, 0))},
     planLength : {Num(4), Num(8), Num(16)},
     avgHours   : {NaN, Dec(624)},
     peakHours  : {Dec(600), Dec(1235)},
     checked    : {{}, {"Mon", "Wed"}, {"Mon", "Wed", "Sat"}}]

\* the record a script collects from a form
Collect(v, form) ==
    IF v = "twotier" THEN collectFormData(form) ELSE App_collectFormData(form)

Records(v) == {Collect(v, form) : form \in Forms}

HandlerRecords(v) == {Collect(v, form) : form \in HandlerForms}

\* the validator and the generator of a script
Validator(v, d, clock) ==
    IF v = "twotier" THEN validate(d, clock) ELSE validateDataInput(d)

Generator(v, d) ==
    IF v = "twotier" THEN buildPlaceholderPlan(d) ELSE App_buildPlaceholderPlan(d)

Handler(v, page, d, clock) ==
    IF v = "twotier" THEN handleGenerate(page, d, clock)
    ELSE App_handleGenerate(page, d)

NoData == [collected |-> FALSE]

NoArgs == <<>>

\* the arguments interpolate is called with directly
InterpArgs ==
    {<<Num(x), Num(x0), Num(x1), y0, y1>> :
        x \in 0..2, x0 \in 0..1, x1 \in 0..2,
        y0 \in {Dec(624), Dec(1000)}, y1 \in {Dec(700), Dec(1235), Dec(1000)}}

---------------------------------------------------------------------------
(* The page: a click on Generate runs handleGenerate; the clock advances *)

Init ==
    /\ variant \in Variants
    /\ now = ClockAt(0)
    /\ messagesEl = LoadedMessages
    /\ outputEl = EmptyOutput
    /\ data = NoData
    /\ errors = <<>>
    /\ plan = NotCalled
    /\ pc = "loaded"
    /\ interpArgs = NoArgs
    /\ interpResult = NaN

\* the page at a click on #generateBtn: the button has taken the focus
ClickedPage == Page([messagesEl EXCEPT !.focused = FALSE], outputEl)

\* a click on #generateBtn runs the handler on the record of some form
HandleGenerate ==
    \E d \in HandlerRecords(variant) :
        \E out \in {Handler(variant, ClickedPage, d, now)} :
            /\ data' = d
            /\ messagesEl' = out.page.messagesEl
            /\ outputEl' = out.page.outputEl
            /\ errors' = out.errors
            /\ plan' = out.plan
            /\ pc' = "handleGenerate"
            /\ UNCHANGED <<variant, now, interpArgs, interpResult>>

\* time passes
Tick ==
    /\ SlotOf(now) < MaxTicks
    /\ now' = ClockAt(SlotOf(now) + 1)
    /\ pc' = "tick"
    /\ UNCHANGED <<variant, messagesEl, outputEl, data, errors, plan,
                   interpArgs, interpResult>>

Next == HandleGenerate \/ Tick

Spec == Init /\ [][Next]_vars

---------------------------------------------------------------------------
(* The validator alone, applied to every record of the input space *)

ValInit ==
    /\ variant \in Variants
    /\ now \in Clocks
    /\ data \in Records(variant)
    /\ messagesEl = LoadedMessages
    /\ outputEl = EmptyOutput
    /\ errors = <<>>
    /\ plan = NotCalled
    /\ pc = "start"
    /\ interpArgs = NoArgs
    /\ interpResult = NaN

CallValidate ==
    /\ pc = "start"
    /\ errors' = Validator(variant, data, now)
    /\ pc' = "validate"
    /\ UNCHANGED <<variant, now, messagesEl, outputEl, data, plan,
                   interpArgs, interpResult>>

ValNext == CallValidate

ValSpec == ValInit /\ [][ValNext]_vars

---------------------------------------------------------------------------
(* The generator alone, applied to every record of the input space, valid  *)
(* or not, and interpolate alone                                           *)

GenInit ==
    /\ variant \in Variants
    /\ now = ClockAt(0)
    /\ \/ data \in Records(variant) /\ pc = "start" /\ interpArgs = NoArgs
       \/ /\ variant = "twotier"
          /\ data = NoData
          /\ pc = "startInterpolate"
          /\ interpArgs \in InterpArgs
    /\ messagesEl = LoadedMessages
    /\ outputEl = EmptyOutput
    /\ errors = <<>>
    /\ plan = NotCalled
    /\ interpResult = NaN

CallGenerate ==
    /\ pc = "start"
    /\ plan' = Generator(variant, data)
    /\ pc' = "generate"
    /\ UNCHANGED <<variant, now, messagesEl, outputEl, data, errors,
                   interpArgs, interpResult>>

CallInterpolate ==
    /\ pc = "startInterpolate"
    /\ interpResult' = interpolate(interpArgs[1], interpArgs[2], interpArgs[3],
                                   interpArgs[4], interpArgs[5])
    /\ pc' = "interpolate"
    /\ UNCHANGED <<variant, now, messagesEl, outputEl, data, errors, plan,
                   interpArgs>>

GenNext == CallGenerate \/ CallInterpolate

GenSpec == GenInit /\ [][GenNext]_vars

---------------------------------------------------------------------------
(* Properties *)

IsPositiveNumber(a) == ~isNaN(a) /\ Lt(Num(0), a)

\* the generator's precondition as the specification states it
GenPrecondition(v, d) ==
    /\ d.targetDate.kind = "date"
    /\ d.planLengthWeeks \in {Num(8), Num(12), Num(16)}
    /\ IsPositiveNumber(d.avgHours)
    /\ v = "twotier" =>
          IsPositiveNumber(d.peakHours) /\ Le(d.avgHours, d.peakHours)

\* what the handler renders for record d and plan p
Rendered(v, p, d) ==
    IF v = "twotier" THEN renderPlan(p, d) ELSE App_renderPlan(p, d)

\* C1: in both variants a run of handleGenerate calls the generator and
\* renders its plan only when the validator returned no violation for the
\* record it collected; when the validator returns a violation the run shows
\* the violations and the generator is not called.
C1_GenerateOnlyWhenValid ==
    pc = "handleGenerate" =>
        /\ errors = Validator(variant, data, now)
        /\ plan.kind # "none" => errors = <<>>
        /\ errors # <<>> =>
              /\ plan = NotCalled
              /\ "error" \in messagesEl.classes
              /\ Len(messagesEl.items) = Len(errors)
              /\ \A i \in 1..Len(errors) :
                    messagesEl.items[i] = escapeHtml(errors[i])
        /\ errors = <<>> =>
              /\ plan.kind = "schedule"
              /\ outputEl = Rendered(variant, plan, data)
              /\ messagesEl.items = <<>>

\* C1 witness: a run on a record whose avgHours is not a number showed the
\* average-hours violation and did not call the generator.
C1_Witness ==
    /\ pc = "handleGenerate"
    /\ isNaN(data.avgHours)
    /\ \E i \in 1..Len(errors) : errors[i] = MsgAvg
    /\ plan = NotCalled

\* C2: every record the validator returns no violation for satisfies the
\* generator's precondition.
C2_ValidImpliesPrecondition ==
    (pc = "validate" /\ errors = <<>>) => GenPrecondition(variant, data)

\* C2 witness: a two-tier record with peakHours above avgHours passed.
C2_Witness ==
    /\ pc = "validate"
    /\ errors = <<>>
    /\ variant = "twotier"
    /\ Lt(data.avgHours, data.peakHours)

\* the number of days from date a to date b
DaysBetween(a, b) == b.day - a.day

\* C3: for a record that satisfies the precondition, in both variants, the
\* plan has planLengthWeeks weeks, numbered 1..planLengthWeeks in order, and
\* its start date lies planLengthWeeks * 7 days before the target date.
C3_WeeksAndStartDate ==
    (pc = "generate" /\ GenPrecondition(variant, data)) =>
        /\ plan.kind = "schedule"
        /\ Len(plan.weeks) = data.planLengthWeeks.num
        /\ \A i \in 1..Len(plan.weeks) : plan.weeks[i].weekNumber = i
        /\ plan.startDate.kind = "date"
        /\ DaysBetween(plan.startDate, data.targetDate)
              = data.planLengthWeeks.num * 7
        /\ plan.startDate.tod = data.targetDate.tod

\* C3 witness: a 16-week single-tier plan whose start date lies before
\* 29 February 2024 (day 59) for a target date after it.
C3_Witness ==
    /\ pc = "generate"
    /\ variant = "single"
    /\ GenPrecondition(variant, data)
    /\ data.planLengthWeeks = Num(16)
    /\ plan.kind = "schedule"
    /\ plan.startDate.day < 59
    /\ data.targetDate.day > 59

\* the planned hours of week index w (0-based) of the last plan
HoursAt(w) == plan.weeks[w + 1].plannedHours

\* floor(planLengthWeeks * 0.65) for a whole number of weeks
PeakIndexOf(d) == (d.planLengthWeeks.num * 13) \div 20

LastIndexOf(d) == d.planLengthWeeks.num - 1

TwoTierPlanOfValidRecord ==
    pc = "generate" /\ variant = "twotier" /\ GenPrecondition(variant, data)

\* the taper of the last plan: the peak week holds round1(peakHours), after
\* it the hours never rise, never drop below `floor`, and stay at `floor`
\* once they have reached it
TaperHolds(floor) ==
    /\ HoursAt(PeakIndexOf(data)) = round1(data.peakHours)
    /\ \A w \in (PeakIndexOf(data) + 1)..LastIndexOf(data) :
          /\ Le(HoursAt(w), HoursAt(w - 1))
          /\ Le(floor, HoursAt(w))
          /\ (w < LastIndexOf(data) /\ HoursAt(w) = floor)
                => HoursAt(w + 1) = floor

\* C4 as stated: in a two-tier plan of a valid record the peak week holds
\* round1(peakHours), and after it the planned hours are non-increasing until
\* they reach avgHours, then stay at avgHours, and never drop below avgHours.
C4_TaperToAverage == TwoTierPlanOfValidRecord => TaperHolds(data.avgHours)

\* C4 amended: the same with round1(avgHours) in the place of avgHours: the
\* planned hours after the peak are non-increasing, stay at round1(avgHours)
\* once they reach it, and never drop below round1(avgHours).
C4_TaperToRoundedAverage ==
    TwoTierPlanOfValidRecord => TaperHolds(round1(data.avgHours))

\* C4 witness: a plan whose taper comes down from a higher peak to
\* round1(avgHours), which is below avgHours.
C4_Witness ==
    /\ TwoTierPlanOfValidRecord
    /\ HoursAt(LastIndexOf(data)) = round1(data.avgHours)
    /\ Lt(round1(data.avgHours), data.avgHours)
    /\ Lt(round1(data.avgHours), HoursAt(PeakIndexOf(data)))

\* the place of a message in the fixed rule order
RuleOf(msg) ==
    CASE msg = MsgDate -> 1
      [] msg = MsgFuture -> 2
      [] msg = MsgPlanLength -> 3
      [] msg = MsgAvg -> 4
      [] msg = MsgAvgMin -> 5
      [] msg = MsgPeak -> 6
      [] msg = MsgPeakAvg -> 7
      [] msg = MsgDays -> 8
      [] msg = MsgDaysMin -> 9
      [] msg = MsgLongRun -> 10
      [] msg \in {MsgLowIntensity, MsgPerDayLow, MsgPerDayHigh} -> 11
      [] OTHER -> 0

\* C5: in both variants the violations are returned in the fixed rule order,
\* at most one per rule: the rule numbers of the returned messages increase
\* strictly, so no message is returned twice and none of a later rule
\* precedes one of an earlier rule.
C5_RuleOrder ==
    pc = "validate" =>
        /\ \A i \in 1..Len(errors) : RuleOf(errors[i]) \in 1..11
        /\ \A i, j \in 1..Len(errors) :
              i < j => RuleOf(errors[i]) < RuleOf(errors[j])

\* C5 witness: a two-tier record that breaks the presence, plan length,
\* average, peak and day selection rules at once.
C5_Witness ==
    /\ pc = "validate"
    /\ variant = "twotier"
    /\ errors = <<MsgDate, MsgPlanLength, MsgAvg, MsgPeak, MsgDays>>

Returned(msg) == \E i \in 1..Len(errors) : errors[i] = msg

NoLongRunDay(days) ==
    ~includes(days, "Thu") /\ ~includes(days, "Sat") /\ ~includes(days, "Sun")

SingleTierValidated == pc = "validate" /\ variant = "single"

C7_PresenceAndFuturity ==
    (pc = "validate" /\ variant = "twotier") =>
        IF data.targetDate.kind = "null"
        THEN Returned(MsgDate) /\ ~Returned(MsgFuture)
        ELSE /\ ~Returned(MsgDate)
             /\ Returned(MsgFuture) <=> ~(data.targetDate.day > now.day)

\* C7 witness: a target later on the clock's own day is not in the future.
C7_Witness ==
    /\ pc = "validate"
    /\ variant = "twotier"
    /\ data.targetDate.kind = "date"
    /\ data.targetDate.day = now.day
    /\ data.targetDate.tod > now.tod
    /\ Returned(MsgFuture)

\* C8: called on a record that violates its precondition, the generator ends
\* in an explicit precondition error and returns no schedule.
C8_PreconditionError ==
    (pc = "generate" /\ ~GenPrecondition(variant, data)) =>
        plan.kind = "PreconditionError"

\* the ramp the claim states: round1(avg + (peak - avg) * w / peakWeekIndex)
RampAt(d, w) ==
    round1(Add(d.avgHours,
               Div(Mul(Sub(d.peakHours, d.avgHours), Num(w)),
                   Num(PeakIndexOf(d)))))

C10_ErrorsKeepPlanOutput ==
    [][/\ (pc' = "handleGenerate" /\ errors' # <<>>) =>
              /\ outputEl' = outputEl
              /\ Len(messagesEl'.items) = Len(errors')
       /\ outputEl' # outputEl => (pc' = "handleGenerate" /\ errors' = <<>>)
      ]_vars

\* C10 witness: after a failed run the plan of an earlier run is displayed
\* together with the error list.
C10_Witness ==
    /\ pc = "handleGenerate"
    /\ errors # <<>>
    /\ outputEl.rendered
    /\ Len(messagesEl.items) > 0

===========================================================================
